---- MODULE Spec2Model ----
(***************************************************************************)
(* Model of the /api/search_by_ranges handler of server.js: validation of  *)
(* the prompt, the call of the translator, the normalisation of the range  *)
(* descriptors, the pool of at most `concurrency` workers that share the   *)
(* cursor idx and the array results, and the response.                      *)
(*                                                                         *)
(* JavaScript runs one continuation at a time, so every action below is    *)
(* the code that runs between two awaits.  Strings are sequences of        *)
(* one-character strings, so that split, trim, template literals and the   *)
(* regular expression of the filter are computed, not assumed.             *)
(***************************************************************************)
EXTENDS Integers, Sequences, FiniteSets, TLC

(***************************************************************************)
(* Bounds of the model.                                                    *)
(***************************************************************************)
MaxRanges == 2      \* longest list of range descriptors a caller supplies
MaxPages == 3       \* largest total_pages the remote API reports
MaxPageLen == 3     \* most organizations the remote API returns in a page
MaxSeed == 1        \* the remote data sets are numbered 0..MaxSeed

(***************************************************************************)
(* Program constants.                                                      *)
(***************************************************************************)
concurrency == 4
PerPageMin == 1
PerPageMax == 100
PerPageFallback == 25
FetchAllPerPage == 100
FirstPage == 1
StatusOk == 200
StatusBadRequest == 400
StatusInternal == 500

None == [t |-> "none"]

(***************************************************************************)
(* JavaScript values.                                                      *)
(***************************************************************************)
Undefined == [t |-> "undefined"]
Null == [t |-> "null"]
JsStr(s) == [t |-> "string", s |-> s]
JsNum(n) == [t |-> "number", n |-> n]
JsArr(a) == [t |-> "array", a |-> a]
JsBool(b) == [t |-> "boolean", b |-> b]
JsObj(keys, min, max) == [t |-> "object", keys |-> keys, min |-> min, max |-> max]

Digits == <<"0", "1", "2", "3", "4", "5", "6", "7", "8", "9">>

IsDigit(c) == \E k \in 1..10 : Digits[k] = c

IsSpace(c) == c = " "

Min2(a, b) == IF a < b THEN a ELSE b

Max2(a, b) == IF a > b THEN a ELSE b

\* String(n) for a natural number: its decimal digits
RECURSIVE NatToString(_)
NatToString(n) ==
  IF n < 10 THEN <<Digits[n + 1]>>
  ELSE NatToString(n \div 10) \o <<Digits[(n % 10) + 1]>>

\* `${v}` of a template literal
TemplateString(v) ==
  CASE v.t = "string" -> v.s
    [] v.t = "number" -> NatToString(v.n)
    [] v.t = "null" -> <<"n", "u", "l", "l">>
    [] OTHER -> <<"u", "n", "d", "e", "f", "i", "n", "e", "d">>

\* s.split(',')
RECURSIVE Split(_)
Split(s) ==
  IF \A k \in 1..Len(s) : s[k] # ","
  THEN <<s>>
  ELSE LET j == CHOOSE k \in 1..Len(s) : s[k] = "," /\ \A m \in 1..(k - 1) : s[m] # ","
       IN <<SubSeq(s, 1, j - 1)>> \o Split(SubSeq(s, j + 1, Len(s)))

\* s.trim()
Trim(s) ==
  IF \A k \in 1..Len(s) : IsSpace(s[k])
  THEN <<>>
  ELSE LET a == CHOOSE k \in 1..Len(s) : ~IsSpace(s[k]) /\ \A m \in 1..(k - 1) : IsSpace(s[m])
           b == CHOOSE k \in 1..Len(s) : ~IsSpace(s[k]) /\ \A m \in (k + 1)..Len(s) : IsSpace(s[m])
       IN SubSeq(s, a, b)

Join2(a, b) == a \o <<",">> \o b

\* /\d+\s*,\s*\d+/.test(s): the expression is not anchored
RangeRegexTest(s) ==
  \E j \in 1..Len(s) :
    /\ s[j] = ","
    /\ \E a \in 1..(j - 1) :
         IsDigit(s[a]) /\ \A k \in (a + 1)..(j - 1) : IsSpace(s[k])
    /\ \E b \in (j + 1)..Len(s) :
         IsDigit(s[b]) /\ \A k \in (j + 1)..(b - 1) : IsSpace(s[k])

\* normalizeRangeInput(range): a string value, or Null
normalizeRangeInput(range) ==
  LET parts == IF range.t = "string"
               THEN [k \in 1..Len(Split(range.s)) |-> Trim(Split(range.s)[k])]
               ELSE <<>>
  IN IF range.t = "string" /\ Len(parts) = 2
     THEN JsStr(Join2(parts[1], parts[2]))
     ELSE IF range.t = "array" /\ Len(range.a) = 2
     THEN JsStr(Join2(TemplateString(range.a[1]), TemplateString(range.a[2])))
     ELSE IF range.t = "object" /\ "min" \in range.keys /\ "max" \in range.keys
     THEN JsStr(Join2(TemplateString(range.min), TemplateString(range.max)))
     ELSE Null

\* the filter callback of line 390
RangeFilter(s) == s.t = "string" /\ RangeRegexTest(s.s)

RECURSIVE FilterSeq(_)
FilterSeq(xs) ==
  IF xs = <<>> THEN <<>>
  ELSE IF RangeFilter(Head(xs))
       THEN <<Head(xs).s>> \o FilterSeq(Tail(xs))
       ELSE FilterSeq(Tail(xs))

\* the built-in ranges of lines 385-387
DefaultRanges ==
  << JsStr(<<"1", ",", "1", "0">>),
     JsStr(<<"1", "1", ",", "5", "0">>),
     JsStr(<<"5", "1", ",", "2", "0", "0">>),
     JsStr(<<"2", "0", "1", ",", "5", "0", "0">>),
     JsStr(<<"5", "0", "1", ",", "1", "0", "0", "0">>),
     JsStr(<<"1", "0", "0", "1", ",", "5", "0", "0", "0">>),
     JsStr(<<"5", "0", "0", "1", ",", "1", "0", "0", "0", "0">>),
     JsStr(<<"1", "0", "0", "0", "1", ",", "2", "0", "0", "0", "0">>) >>

\* Array.isArray(ranges) && ranges.length > 0 ? ranges : [defaults]
InputRanges(ranges) ==
  IF ranges.t = "array" /\ Len(ranges.a) > 0 THEN ranges.a ELSE DefaultRanges

\* inputRanges.map(normalizeRangeInput).filter(...)
Normalize(ranges) ==
  LET input == InputRanges(ranges)
  IN FilterSeq([k \in 1..Len(input) |-> normalizeRangeInput(input[k])])

(***************************************************************************)
(* Helpers of the handler.                                                 *)
(***************************************************************************)
\* !v
Falsy(v) ==
  \/ v.t = "undefined"
  \/ v.t = "null"
  \/ v.t = "string" /\ v.s = <<>>
  \/ v.t = "number" /\ v.n = 0
  \/ v.t = "boolean" /\ ~v.b

\* only !prompt
PromptFalsy(v) == Falsy(v)

\* the test of line 375
PromptRejected(v) == Falsy(v) \/ v.t # "string"

NaN == [nan |-> TRUE, v |-> 0]

\* Number(v) for the values a caller sends as per_page
ToNumber(v) ==
  CASE v.t = "number" -> [nan |-> FALSE, v |-> v.n]
    [] v.t = "null" -> [nan |-> FALSE, v |-> 0]
    [] OTHER -> NaN

\* clamp(value, min, max, fallback)
clamp(value, min, max, fallback) ==
  IF value.nan THEN fallback ELSE Min2(Max2(value.v, min), max)

SafePerPage(v) == clamp(ToNumber(v), PerPageMin, PerPageMax, PerPageFallback)

\* the payload generateApolloPayloadFromNL returns for the hints it is given
TranslatedPayload(perPage) ==
  [page |-> FirstPage, per_page |-> perPage, sort_by |-> "relevance"]

\* JavaScript objects are functions from their keys to their values
EmptyObject == [k \in {} |-> Null]

\* no delete
Keep(obj, keys) == obj

\* delete obj.k for every k of keys
Without(obj, keys) == [k \in (DOMAIN obj) \ keys |-> obj[k]]

\* obj.key = v
Put(obj, key, v) == [k \in (DOMAIN obj) \cup {key} |-> IF k = key THEN v ELSE obj[k]]

\* const payload = basePayload: the payload is the base object itself
SameObject(basePayload) == [value |-> basePayload, shared |-> TRUE]

\* JSON.parse(JSON.stringify(basePayload)): a copy that shares nothing
\* (line 345); a base query is a JSON value, which the round trip preserves
CopyBase(basePayload) == [value |-> basePayload, shared |-> FALSE]

ConflictingFields == {"organization_num_employees_min", "organization_num_employees_max"}

\* the payload searchForRange posts (lines 345-357); the overrides are
\* JavaScript values, applied when they are numbers
RangePayload(basePayload, rangeString, pageOverride, perPageOverride) ==
  LET copied == CopyBase(basePayload).value
      cleared == Without(copied, ConflictingFields)
      nested == IF "query" \in DOMAIN cleared
                THEN Without(cleared.query, ConflictingFields)
                ELSE EmptyObject
      ranged == Put(cleared, "organization_num_employees_ranges", <<rangeString>>)
      queried == Put(ranged, "query",
                     Put(nested, "organization_num_employees_ranges", <<rangeString>>))
      paged == IF pageOverride.t = "number"
               THEN Put(queried, "page", pageOverride.n) ELSE queried
  IN IF perPageOverride.t = "number"
     THEN Put(paged, "per_page", perPageOverride.n) ELSE paged

\* the base object once searchForRange has built its payload
BaseAfter(basePayload, rangeString, pageOverride, perPageOverride) ==
  IF CopyBase(basePayload).shared
  THEN RangePayload(basePayload, rangeString, pageOverride, perPageOverride)
  ELSE basePayload

\* the first page asks for the caller's page size whatever fetch_all is
CallerPerPage(fetchAll, perPage) == perPage

\* per_page of the first call of a partition (line 402)
FirstPerPage(fetchAll, perPage) == IF fetchAll THEN FetchAllPerPage ELSE perPage

(***************************************************************************)
(* The remote search API: a deterministic data set per seed.  What it      *)
(* returns depends on the range string and the page of the payload only.   *)
(***************************************************************************)
RemoteTotalPages(sd, r) == (Len(r) + 2) % (MaxPages + 1)

RemotePageLen(sd, r, p) == (Len(r) + sd + p) % (MaxPageLen + 1)

RemoteOrganizations(sd, r, p) ==
  [k \in 1..RemotePageLen(sd, r, p) |-> [range |-> r, page |-> p, k |-> k]]

RECURSIVE RemoteEntries(_, _, _)
RemoteEntries(sd, r, p) ==
  IF p = 0 THEN 0 ELSE RemotePageLen(sd, r, p) + RemoteEntries(sd, r, p - 1)

\* data of a successful response; total_entries is reported by even seeds
RemoteData(sd, payload) ==
  LET r == payload.organization_num_employees_ranges[1]
  IN [organizations |-> RemoteOrganizations(sd, r, payload.page),
      total_pages |-> RemoteTotalPages(sd, r),
      has_total_entries |-> (sd % 2 = 0),
      total_entries |-> RemoteEntries(sd, r, Max2(1, RemoteTotalPages(sd, r)))]

\* data set 0 is reliable; data set sd > 0 may reject, or answer, any post for
\* a range string whose length is sd - 1 modulo 8 ("501,1000" for sd = 1)
Flaky(sd, payload) ==
  /\ sd > 0
  /\ Len(payload.organization_num_employees_ranges[1]) % 8 = sd - 1

\* a response with a body, a response without one, and no response at all
ErrKinds == {"http", "empty", "transport"}

\* the error axios rejects with: err.response (status and data) and err.message
RemoteError(kind) ==
  CASE kind = "http" ->
         [has_response |-> TRUE, status |-> 429, has_data |-> TRUE,
          data |-> [error |-> "rate limited"],
          message |-> "Request failed with status code 429"]
    [] kind = "empty" ->
         [has_response |-> TRUE, status |-> 502, has_data |-> FALSE,
          data |-> Null,
          message |-> "Request failed with status code 502"]
    [] OTHER ->
         [has_response |-> FALSE, status |-> 0, has_data |-> FALSE,
          data |-> Null,
          message |-> "timeout of 30000ms exceeded"]

\* err.response?.status || 500
ErrorStatus(err) == IF err.has_response THEN err.status ELSE StatusInternal

\* err.response?.data is truthy
HasData(err) == err.has_response /\ err.has_data

\* err.response?.data || { message: String(err.message || err) }
ErrorDetails(err) == IF HasData(err) THEN err.data ELSE [message |-> err.message]

\* what searchForRange returns for the data of a response (lines 359-361)
SearchResult(data) ==
  [total |-> IF data.has_total_entries THEN data.total_entries
             ELSE Len(data.organizations),
   organizations |-> data.organizations,
   total_pages |-> data.total_pages]

\* Number(first.pagination?.total_pages || 1)
TotalPagesOf(first) == IF first.total_pages = 0 THEN 1 ELSE first.total_pages

\* p += 2
PageAfterNext(p) == p + 2

\* p++ of line 406
NextPage(p) == p + 1

\* a loop that breaks at a page without organizations
MorePagesUntilEmpty(fetchAll, totalPages, p, orgs) ==
  fetchAll /\ totalPages > 1 /\ p < totalPages /\ (p = FirstPage \/ Len(orgs) > 0)

\* lines 405-406: is page p + 1 fetched after page p returned orgs
MorePages(fetchAll, totalPages, p, orgs) ==
  fetchAll /\ totalPages > 1 /\ p < totalPages

\* allOrgs = next.organizations
ReplacePage(allOrgs, orgs) == IF Len(orgs) > 0 THEN orgs ELSE allOrgs

\* lines 408-410
AppendPage(allOrgs, orgs) == IF Len(orgs) > 0 THEN allOrgs \o orgs ELSE allOrgs

\* allOrgs.slice(0, n)
Slice(orgs, n) == SubSeq(orgs, 1, Min2(Len(orgs), n))

\* no slice
Unlimited(fetchAll, allOrgs, perPage) == allOrgs

\* line 413
Limited(fetchAll, allOrgs, perPage) ==
  IF fetchAll THEN allOrgs ELSE Slice(allOrgs, perPage)

\* a success outcome that also carries the error flag
SuccessOutcomeFlagged(r, total, limited) ==
  [range |-> r, error |-> FALSE, total_entries |-> total, organizations |-> limited]

\* line 414
SuccessOutcome(r, total, limited) ==
  [range |-> r, total_entries |-> total, organizations |-> limited]

\* a catch block that leaves out error: true
FailureOutcomeUnflagged(r, err) ==
  [range |-> r,
   status |-> ErrorStatus(err),
   details |-> ErrorDetails(err),
   total_entries |-> 0, organizations |-> <<>>]

\* a catch block that copies err.response as it is
FailureOutcomeRaw(r, err) ==
  [range |-> r, error |-> TRUE,
   status |-> err.status,
   details |-> err.data,
   total_entries |-> 0, organizations |-> <<>>]

\* lines 416-418
FailureOutcome(r, err) ==
  [range |-> r, error |-> TRUE,
   status |-> ErrorStatus(err),
   details |-> ErrorDetails(err),
   total_entries |-> 0, organizations |-> <<>>]

\* one worker per partition
NumWorkersAll(n) == n

\* Math.min(concurrency, normalized.length)
NumWorkers(n) == Min2(concurrency, n)

\* Promise.race: settles with the first worker
AnySettled(ws) == \E w \in DOMAIN ws : ws[w].pc = "done"

\* Promise.all settles once every worker() promise has
AllSettled(ws) == \A w \in DOMAIN ws : ws[w].pc = "done"

\* i = idx without the increment
SameCursor(i) == i

\* idx += 2
SkipCursor(i) == i + 2

\* idx++
NextCursor(i) == i + 1

\* results.length
ArrayLength(arr) ==
  IF DOMAIN arr = {} THEN 0
  ELSE (CHOOSE k \in DOMAIN arr : \A m \in DOMAIN arr : m <= k) + 1

\* results.push(v): the outcome lands at the completion position
ArrayPush(arr, i, v) ==
  [k \in (DOMAIN arr) \cup {ArrayLength(arr)} |-> IF k = ArrayLength(arr) THEN v ELSE arr[k]]

\* results[i] = v on a JavaScript array
ArrayStore(arr, i, v) ==
  [k \in (DOMAIN arr) \cup {i} |-> IF k = i THEN v ELSE arr[k]]

\* the array as res.json serialises it: a hole becomes null
JsonArray(arr) ==
  [k \in 1..ArrayLength(arr) |-> IF (k - 1) \in DOMAIN arr THEN arr[k - 1] ELSE Null]

\* counters kept per index
Bump(f, i) ==
  [k \in (DOMAIN f) \cup {i} |-> IF k \in DOMAIN f
                                   THEN (IF k = i THEN f[k] + 1 ELSE f[k])
                                   ELSE 1]

(***************************************************************************)
(* The requests the model sends.                                           *)
(***************************************************************************)
\* range descriptors: the three accepted shapes, and malformed ones
Descriptors ==
  { JsStr(<<"1", ",", "1", "0">>),
    JsStr(<<" ", "1", " ", ",", " ", "5", " ">>),
    JsStr(<<"1", "-", "1", "0">>),
    JsStr(<<"x", "1", ",", "2", "y">>),
    JsStr(<<"a", ",", "b">>),
    JsArr(<<JsNum(501), JsNum(1000)>>),
    JsObj({"min", "max"}, JsNum(10), JsNum(5)),
    JsNum(7) }

RECURSIVE SeqsUpTo(_, _)
SeqsUpTo(S, n) ==
  IF n = 0 THEN {<<>>}
  ELSE LET shorter == SeqsUpTo(S, n - 1)
       IN shorter \cup {Append(q, x) : q \in {t \in shorter : Len(t) = n - 1}, x \in S}

UserRanges == {JsArr(a) : a \in SeqsUpTo(Descriptors, MaxRanges) \ {<<>>}}

ValidPrompt == JsStr(<<"s", "o", "l", "a", "r">>)

PromptInputs == {Undefined, JsStr(<<>>), JsNum(5), ValidPrompt}

PerPageInputs == {Undefined, JsNum(0)}

Request(p, pp, rg, fa) == [prompt |-> p, per_page |-> pp, ranges |-> rg, fetch_all |-> fa]

\* every prompt; every list of descriptors with every per_page; and the two
\* ways of sending no descriptors, which run the eight built-in ranges
Requests ==
  {Request(p, Undefined, Undefined, FALSE) : p \in PromptInputs}
  \cup {Request(ValidPrompt, pp, rg, fa) :
          pp \in PerPageInputs, rg \in UserRanges, fa \in BOOLEAN}
  \cup {Request(ValidPrompt, Undefined, Undefined, fa) : fa \in BOOLEAN}
  \cup {Request(ValidPrompt, JsNum(0), JsArr(<<>>), fa) : fa \in BOOLEAN}

VARIABLES
  prompt,        \* body.prompt ?? query.prompt
  per_page,      \* body.per_page ?? query.per_page
  ranges,        \* body.ranges ?? query.ranges
  fetch_all,     \* line 373
  seed,          \* the data set the remote API serves
  phase,         \* position of the handler
  safePerPage,   \* line 379
  translated,    \* number of calls of generateApolloPayloadFromNL
  base,          \* line 382
  normalized,    \* lines 388-390
  results,       \* line 393: a JavaScript array, indexed from 0
  idx,           \* line 394
  workers,       \* the worker() calls of line 422, in the order they start
  calls,         \* the payloads posted to the remote API
  ncalls,        \* number of posts
  faults,        \* the (index, page, kind) of the posts that were rejected
  claimCount,    \* per index, how many times line 398 yielded it
  writeCount,    \* per index, how many times results[i] was assigned
  postCount,     \* per (index, page), how many times it was posted
  response,      \* what res.json sent
  sent,          \* number of responses sent
  page,          \* body.page of /api/search
  enrich,        \* body.enrich of /api/search
  safePage,      \* line 292
  apolloPayload, \* line 295, reassigned at line 309
  apolloData,    \* lines 297-309
  err,           \* what the primary post rejected with (line 300)
  err2           \* what the fallback post rejected with (line 310)

vars == <<prompt, per_page, ranges, fetch_all, seed, phase, safePerPage, translated,
          base, normalized, results, idx, workers, calls, ncalls, faults,
          claimCount, writeCount, postCount, response, sent,
          page, enrich, safePage, apolloPayload, apolloData, err, err2>>

inputs == <<prompt, per_page, ranges, fetch_all, seed, page, enrich>>

\* the locals of the handler of /api/search
searchLocals == <<safePage, apolloPayload, apolloData, err, err2>>

\* the locals of the handler of /api/search_by_ranges
rangeLocals ==
  <<base, normalized, results, idx, workers, faults, claimCount, writeCount, postCount>>

IdleWorker ==
  [pc |-> "done", i |-> 0, p |-> 0, allOrgs |-> <<>>, total |-> 0, totalPages |-> 0]

Init ==
  /\ \E rq \in Requests :
       /\ prompt = rq.prompt
       /\ per_page = rq.per_page
       /\ ranges = rq.ranges
       /\ fetch_all = rq.fetch_all
  /\ seed \in 0..MaxSeed
  /\ phase = "received"
  /\ safePerPage = 0
  /\ translated = 0
  /\ base = None
  /\ normalized = <<>>
  /\ results = <<>>
  /\ idx = 0
  /\ workers = <<>>
  /\ calls = {}
  /\ ncalls = 0
  /\ faults = {}
  /\ claimCount = <<>>
  /\ writeCount = <<>>
  /\ postCount = <<>>
  /\ response = None
  /\ sent = 0
  /\ page = Undefined
  /\ enrich = Undefined
  /\ safePage = 0
  /\ apolloPayload = None
  /\ apolloData = None
  /\ err = None
  /\ err2 = None

\* a handler whose rejection of the prompt lacks the return of line 376
HandleFallsThrough ==
  /\ phase = "received"
  /\ IF PromptRejected(prompt)
     THEN /\ response' = [status |-> StatusBadRequest, error |-> "prompt is required (string)"]
          /\ sent' = sent + 1
     ELSE UNCHANGED <<response, sent>>
  /\ safePerPage' = SafePerPage(per_page)
  /\ translated' = translated + 1
  /\ phase' = "translating"
  /\ UNCHANGED <<inputs, searchLocals, base, normalized, results, idx, workers, calls, ncalls, postCount, faults,
                 claimCount, writeCount>>

\* lines 365-382: the handler up to the await of the translator
Handle ==
  /\ phase = "received"
  /\ IF PromptRejected(prompt)
     THEN /\ response' = [status |-> StatusBadRequest, error |-> "prompt is required (string)"]
          /\ sent' = sent + 1
          /\ phase' = "done"
          /\ UNCHANGED <<safePerPage, translated>>
     ELSE /\ safePerPage' = SafePerPage(per_page)
          /\ translated' = translated + 1
          /\ phase' = "translating"
          /\ UNCHANGED <<response, sent>>
  /\ UNCHANGED <<inputs, searchLocals, base, normalized, results, idx, workers, calls, ncalls, postCount, faults,
                 claimCount, writeCount>>

\* a handler that answers a failed translation with an empty list of groups
TranslatorThrowsAnswersEmpty ==
  /\ phase = "translating"
  /\ response' = [status |-> StatusOk, ranges |-> <<>>, per_page |-> safePerPage,
                   fetch_all |-> fetch_all, apollo_payload |-> Null, groups |-> <<>>]
  /\ sent' = sent + 1
  /\ phase' = "done"
  /\ UNCHANGED <<inputs, searchLocals, safePerPage, translated, base, normalized, results, idx, workers,
                 calls, ncalls, postCount, faults, claimCount, writeCount>>

\* generateApolloPayloadFromNL throws: lines 435-438
TranslatorThrows ==
  /\ phase = "translating"
  /\ response' = [status |-> StatusInternal, error |-> "Internal error"]
  /\ sent' = sent + 1
  /\ phase' = "done"
  /\ UNCHANGED <<inputs, searchLocals, safePerPage, translated, base, normalized, results, idx, workers,
                 calls, ncalls, postCount, faults, claimCount, writeCount>>

\* lines 382-395: the translator returns, the ranges are normalised
TranslatorReturns ==
  /\ phase = "translating"
  /\ base' = TranslatedPayload(safePerPage)
  /\ normalized' = Normalize(ranges)
  /\ results' = <<>>
  /\ idx' = 0
  /\ phase' = "starting"
  /\ UNCHANGED <<inputs, searchLocals, safePerPage, translated, workers, calls, ncalls, postCount, faults,
                 claimCount, writeCount, response, sent>>

\* lines 397-402: the head of the worker loop, up to the post of page 1
\* (wk is the worker's record when it reaches the head)
LoopHead(w, wk) ==
  IF idx < Len(normalized)
  THEN LET i == idx
           r == normalized[i + 1]
           perPage == JsNum(FirstPerPage(fetch_all, safePerPage))
           payload == RangePayload(base, r, JsNum(FirstPage), perPage)
       IN /\ idx' = NextCursor(idx)
          /\ base' = BaseAfter(base, r, JsNum(FirstPage), perPage)
          /\ claimCount' = Bump(claimCount, i)
          /\ workers' = [k \in (DOMAIN workers) \cup {w} |->
                           IF k = w
                           THEN [pc |-> "await", i |-> i, p |-> FirstPage, allOrgs |-> <<>>,
                                 total |-> 0, totalPages |-> 0]
                           ELSE workers[k]]
          /\ calls' = calls \cup {payload}
          /\ ncalls' = ncalls + 1
          /\ postCount' = Bump(postCount, <<i, FirstPage>>)
  ELSE /\ workers' = [k \in (DOMAIN workers) \cup {w} |->
                        IF k = w THEN [wk EXCEPT !.pc = "done"] ELSE workers[k]]
       /\ UNCHANGED <<idx, base, claimCount, calls, ncalls, postCount>>

\* line 422: Array.from calls worker() once more
StartWorker ==
  /\ phase = "starting"
  /\ Len(workers) < NumWorkers(Len(normalized))
  /\ LoopHead(Len(workers) + 1, IdleWorker)
  /\ UNCHANGED <<inputs, searchLocals, phase, safePerPage, translated, normalized, results, faults,
                 writeCount, response, sent>>

\* line 422: every worker was called, the handler awaits Promise.all
AwaitAll ==
  /\ phase = "starting"
  /\ Len(workers) = NumWorkers(Len(normalized))
  /\ phase' = "pool"
  /\ UNCHANGED <<inputs, searchLocals, safePerPage, translated, base, normalized, results, idx, workers,
                 calls, ncalls, postCount, faults, claimCount, writeCount, response, sent>>

\* lines 413-414 and back to the loop head
Finish(w, allOrgs, total) ==
  LET wk == workers[w]
      r == normalized[wk.i + 1]
  IN /\ results' = ArrayStore(results, wk.i,
                      SuccessOutcome(r, total, Limited(fetch_all, allOrgs, safePerPage)))
     /\ writeCount' = Bump(writeCount, wk.i)
     /\ LoopHead(w, wk)

\* the post of worker w is answered: lines 403-414
RemoteOk(w) ==
  /\ phase = "pool"
  /\ workers[w].pc = "await"
  /\ LET wk == workers[w]
         r == normalized[wk.i + 1]
         perPage == IF wk.p = FirstPage THEN FirstPerPage(fetch_all, safePerPage)
                    ELSE FetchAllPerPage
         got == SearchResult(RemoteData(seed, RangePayload(base, r, JsNum(wk.p), JsNum(perPage))))
         allOrgs == IF wk.p = FirstPage THEN got.organizations
                    ELSE AppendPage(wk.allOrgs, got.organizations)
         total == IF wk.p = FirstPage THEN got.total ELSE wk.total
         totalPages == IF wk.p = FirstPage THEN TotalPagesOf(got) ELSE wk.totalPages
     IN IF MorePages(fetch_all, totalPages, wk.p, got.organizations)
        THEN /\ workers' = [workers EXCEPT ![w] =
                              [wk EXCEPT !.p = NextPage(wk.p), !.allOrgs = allOrgs,
                                         !.total = total, !.totalPages = totalPages]]
             /\ calls' = calls \cup {RangePayload(base, r, JsNum(NextPage(wk.p)),
                                                   JsNum(FetchAllPerPage))}
             /\ base' = BaseAfter(base, r, JsNum(NextPage(wk.p)), JsNum(FetchAllPerPage))
             /\ ncalls' = ncalls + 1
             /\ postCount' = Bump(postCount, <<wk.i, NextPage(wk.p)>>)
             /\ UNCHANGED <<results, idx, claimCount, writeCount>>
        ELSE Finish(w, allOrgs, total)
  /\ UNCHANGED <<inputs, searchLocals, phase, safePerPage, translated, normalized, faults,
                 response, sent>>

\* a catch that keeps the organizations of the pages fetched before the rejection
RemoteFailKeepsPartial(w, kind) ==
  /\ phase = "pool"
  /\ workers[w].pc = "await"
  /\ Flaky(seed, [organization_num_employees_ranges |-> <<normalized[workers[w].i + 1]>>])
  /\ LET wk == workers[w]
         r == normalized[wk.i + 1]
         failed == FailureOutcome(r, RemoteError(kind))
     IN /\ faults' = faults \cup {<<wk.i, wk.p, kind>>}
        /\ results' = ArrayStore(results, wk.i,
                          [failed EXCEPT !.organizations = wk.allOrgs,
                                         !.total_entries = wk.total])
        /\ writeCount' = Bump(writeCount, wk.i)
        /\ LoopHead(w, wk)
  /\ UNCHANGED <<inputs, searchLocals, phase, safePerPage, translated, normalized, response, sent>>

\* a worker that posts a rejected page a second time before giving up
RemoteFailRetriesOnce(w, kind) ==
  /\ phase = "pool"
  /\ workers[w].pc = "await"
  /\ Flaky(seed, [organization_num_employees_ranges |-> <<normalized[workers[w].i + 1]>>])
  /\ LET wk == workers[w]
         r == normalized[wk.i + 1]
     IN IF postCount[<<wk.i, wk.p>>] = 1
        THEN /\ postCount' = Bump(postCount, <<wk.i, wk.p>>)
             /\ ncalls' = ncalls + 1
             /\ UNCHANGED <<base, results, idx, workers, calls, faults, claimCount,
                            writeCount>>
        ELSE /\ faults' = faults \cup {<<wk.i, wk.p, kind>>}
             /\ results' = ArrayStore(results, wk.i, FailureOutcome(r, RemoteError(kind)))
             /\ writeCount' = Bump(writeCount, wk.i)
             /\ LoopHead(w, wk)
  /\ UNCHANGED <<inputs, searchLocals, phase, safePerPage, translated, normalized, response, sent>>

\* the post of worker w is rejected: lines 415-419
RemoteFail(w, kind) ==
  /\ phase = "pool"
  /\ workers[w].pc = "await"
  /\ Flaky(seed, [organization_num_employees_ranges |-> <<normalized[workers[w].i + 1]>>])
  /\ LET wk == workers[w]
         r == normalized[wk.i + 1]
     IN /\ faults' = faults \cup {<<wk.i, wk.p, kind>>}
        /\ results' = ArrayStore(results, wk.i, FailureOutcome(r, RemoteError(kind)))
        /\ writeCount' = Bump(writeCount, wk.i)
        /\ LoopHead(w, wk)
  /\ UNCHANGED <<inputs, searchLocals, phase, safePerPage, translated, normalized, response, sent>>

\* lines 422-434: Promise.all resolves, the response is sent
SendResponse ==
  /\ phase = "pool"
  /\ AllSettled(workers)
  /\ response' = [status |-> StatusOk, ranges |-> normalized, per_page |-> safePerPage,
                  fetch_all |-> fetch_all, apollo_payload |-> base,
                  groups |-> JsonArray(results)]
  /\ sent' = sent + 1
  /\ phase' = "done"
  /\ UNCHANGED <<inputs, searchLocals, safePerPage, translated, base, normalized, results, idx, workers,
                 calls, ncalls, postCount, faults, claimCount, writeCount>>

Next ==
  \/ Handle
  \/ TranslatorThrows
  \/ TranslatorReturns
  \/ StartWorker
  \/ AwaitAll
  \/ \E w \in DOMAIN workers : RemoteOk(w)
  \/ \E w \in DOMAIN workers, kind \in ErrKinds : RemoteFail(w, kind)
  \/ SendResponse

Spec == Init /\ [][Next]_vars

(***************************************************************************)
(* POST /api/search: one structured search with a keyword fallback.        *)
(***************************************************************************)
LowerCase ==
  << "a", "b", "c", "d", "e", "f", "g", "h", "i", "j", "k", "l", "m", "n",
     "o", "p", "q", "r", "s", "t", "u", "v", "w", "x", "y", "z" >>

UpperCase ==
  << "A", "B", "C", "D", "E", "F", "G", "H", "I", "J", "K", "L", "M", "N",
     "O", "P", "Q", "R", "S", "T", "U", "V", "W", "X", "Y", "Z" >>

\* c.toLowerCase() of one character
ToLowerCase(c) ==
  IF \E k \in 1..Len(UpperCase) : UpperCase[k] = c
  THEN LowerCase[CHOOSE k \in 1..Len(UpperCase) : UpperCase[k] = c]
  ELSE c

\* the characters /[^a-z0-9\s,.-]/ leaves alone
KeywordChar(c) ==
  \/ \E k \in 1..Len(LowerCase) : LowerCase[k] = c
  \/ IsDigit(c)
  \/ IsSpace(c)
  \/ c \in {",", ".", "-"}

\* .toLowerCase().replace(/[^a-z0-9\s,.-]/g, ' ')
Cleaned(s) ==
  [k \in 1..Len(s) |-> IF KeywordChar(ToLowerCase(s[k])) THEN ToLowerCase(s[k]) ELSE " "]

\* .split(/\s+/).filter((w) => w): the maximal runs without white space
RECURSIVE WordsFrom(_, _)
WordsFrom(s, word) ==
  IF s = <<>> THEN (IF word = <<>> THEN <<>> ELSE <<word>>)
  ELSE IF IsSpace(Head(s))
       THEN (IF word = <<>> THEN <<>> ELSE <<word>>) \o WordsFrom(Tail(s), <<>>)
       ELSE WordsFrom(Tail(s), Append(word, Head(s)))

stopwords ==
  { <<"f", "i", "n", "d">>, <<"s", "h", "o", "w">>,
    <<"m", "e">>, <<"c", "o", "m", "p", "a", "n", "i", "e", "s">>,
    <<"c", "o", "m", "p", "a", "n", "y">>, <<"w", "i", "t", "h">>,
    <<"i", "n">>, <<"t", "h", "e">>,
    <<"a">>, <<"a", "n">>,
    <<"a", "n", "d">>, <<"o", "r">>,
    <<"t", "h", "a", "t">>, <<"w", "h", "i", "c", "h">>,
    <<"w", "h", "o">>, <<"o", "f">>,
    <<"f", "o", "r">> }

RECURSIVE NotStopwords(_)
NotStopwords(ws) ==
  IF ws = <<>> THEN <<>>
  ELSE IF Head(ws) \in stopwords THEN NotStopwords(Tail(ws))
       ELSE <<Head(ws)>> \o NotStopwords(Tail(ws))

\* .join(' ')
RECURSIVE JoinWords(_)
JoinWords(ws) ==
  IF ws = <<>> THEN <<>>
  ELSE IF Len(ws) = 1 THEN ws[1]
       ELSE ws[1] \o <<" ">> \o JoinWords(Tail(ws))

\* extractKeywords(input), lines 34-44, for a JavaScript value
extractKeywords(input) ==
  IF Falsy(input) \/ input.t # "string" THEN <<>>
  ELSE JoinWords(Slice(NotStopwords(WordsFrom(Cleaned(input.s), <<>>)), 15))

PageMin == 1
PageMax == 500
PageFallback == 1

\* line 292
SafePage(v) == clamp(ToNumber(v), PageMin, PageMax, PageFallback)

\* the payload generateApolloPayloadFromNL returns for a page and a page size
TranslatedPage(pg, perPage) == Put(TranslatedPayload(perPage), "page", pg)

\* lines 302-306
FallbackPayload(p, pg, perPage) ==
  [page |-> pg, per_page |-> perPage,
   q_organization_name |-> IF extractKeywords(p) # <<>> THEN extractKeywords(p) ELSE p.s]

\* a fallback that leaves apolloPayload as it was
Unmarked(payload, fallbackPayload) == payload

\* line 309
MarkFallback(payload, fallbackPayload) ==
  Put(Put(payload, "__fallback_used", TRUE), "__fallback_payload", fallbackPayload)

IsKeywordSearch(payload) == "q_organization_name" \in DOMAIN payload

\* what the remote API answers to a post of /api/search: as many
\* organizations as data set and page decide; the odd data sets answer a
\* keyword search without an organizations array
RemoteSearch(sd, payload) ==
  [has_organizations |-> ~(IsKeywordSearch(payload) /\ sd % 2 = 1),
   organizations |-> [k \in 1..((sd + payload.page) % (MaxPageLen + 1)) |->
                        [page |-> payload.page, keyword |-> IsKeywordSearch(payload),
                         k |-> k]],
   enriched |-> FALSE]

\* line 321, with enrichment calls that find no employee estimate
EnrichedData(data) == [data EXCEPT !.enriched = TRUE]

\* line 324
SearchResponse(payload, data) ==
  [status |-> StatusOk,
   request |-> [prompt |-> prompt, payload |-> payload, enrich |-> ~Falsy(enrich)],
   results |-> data]

\* lines 311-314: both posts were rejected, first with e1 and then with e2
ApolloError(e1, e2, payload) ==
  [status |-> IF e2.has_response THEN e2.status
              ELSE IF e1.has_response THEN e1.status ELSE StatusInternal,
   error |-> "Apollo API error",
   message |-> IF HasData(e2) \/ HasData(e1) THEN "Unknown Apollo error"
               ELSE e2.message,
   details |-> IF HasData(e2) THEN e2.data
               ELSE IF HasData(e1) THEN e1.data ELSE [message |-> e2.message],
   attempted_payload |-> payload]

SearchPrompts ==
  PromptInputs \cup {JsStr(<<"F", "i", "n", "d", " ", "S", "o", "l", "a", "r", "!">>),
                     JsStr(<<"t", "h", "e">>)}

PageInputs == {Undefined, JsNum(2)}

EnrichInputs == {Undefined, JsBool(TRUE), JsBool(FALSE)}

SearchInit ==
  /\ prompt \in SearchPrompts
  /\ per_page \in PerPageInputs
  /\ page \in PageInputs
  /\ enrich \in EnrichInputs
  /\ seed \in 0..MaxSeed
  /\ ranges = Undefined
  /\ fetch_all = FALSE
  /\ phase = "search received"
  /\ safePerPage = 0
  /\ safePage = 0
  /\ translated = 0
  /\ base = None
  /\ normalized = <<>>
  /\ results = <<>>
  /\ idx = 0
  /\ workers = <<>>
  /\ calls = {}
  /\ ncalls = 0
  /\ faults = {}
  /\ claimCount = <<>>
  /\ writeCount = <<>>
  /\ postCount = <<>>
  /\ response = None
  /\ sent = 0
  /\ apolloPayload = None
  /\ apolloData = None
  /\ err = None
  /\ err2 = None

\* lines 286-295: the handler up to the await of the translator
SearchHandle ==
  /\ phase = "search received"
  /\ IF PromptRejected(prompt)
     THEN /\ response' = [status |-> StatusBadRequest, error |-> "prompt is required (string)"]
          /\ sent' = sent + 1
          /\ phase' = "done"
          /\ UNCHANGED <<safePage, safePerPage, translated>>
     ELSE /\ safePage' = SafePage(page)
          /\ safePerPage' = SafePerPage(per_page)
          /\ translated' = translated + 1
          /\ phase' = "search translating"
          /\ UNCHANGED <<response, sent>>
  /\ UNCHANGED <<inputs, rangeLocals, calls, ncalls, apolloPayload, apolloData, err, err2>>

\* generateApolloPayloadFromNL throws: lines 325-327
SearchTranslatorThrows ==
  /\ phase = "search translating"
  /\ response' = [status |-> StatusInternal, error |-> "Internal error"]
  /\ sent' = sent + 1
  /\ phase' = "done"
  /\ UNCHANGED <<inputs, rangeLocals, searchLocals, safePerPage, translated, calls, ncalls>>

\* lines 295-299: the translator returns, the primary post is sent
SearchTranslatorReturns ==
  /\ phase = "search translating"
  /\ apolloPayload' = TranslatedPage(safePage, safePerPage)
  /\ calls' = calls \cup {apolloPayload'}
  /\ ncalls' = ncalls + 1
  /\ phase' = "primary"
  /\ UNCHANGED <<inputs, rangeLocals, safePage, safePerPage, translated, apolloData, err,
                 err2, response, sent>>

\* lines 319-324: enrichment is awaited, or the answer is sent
AfterSearch(payload, data) ==
  /\ apolloPayload' = payload
  /\ IF ~Falsy(enrich) /\ data.has_organizations
     THEN /\ apolloData' = data
          /\ phase' = "enriching"
          /\ UNCHANGED <<response, sent>>
     ELSE /\ apolloData' = data
          /\ response' = SearchResponse(payload, data)
          /\ sent' = sent + 1
          /\ phase' = "done"

\* line 299: the primary post is answered
PrimaryOk ==
  /\ phase = "primary"
  /\ AfterSearch(apolloPayload, RemoteSearch(seed, apolloPayload))
  /\ UNCHANGED <<inputs, rangeLocals, safePage, safePerPage, translated, calls, ncalls,
                 err, err2>>

\* lines 300-308: the primary post is rejected, the fallback post is sent
PrimaryFail(kind) ==
  /\ phase = "primary"
  /\ err' = RemoteError(kind)
  /\ calls' = calls \cup {FallbackPayload(prompt, safePage, safePerPage)}
  /\ ncalls' = ncalls + 1
  /\ phase' = "fallback"
  /\ UNCHANGED <<inputs, rangeLocals, safePage, safePerPage, translated, apolloPayload,
                 apolloData, err2, response, sent>>

\* lines 308-309: the fallback post is answered
FallbackOk ==
  /\ phase = "fallback"
  /\ LET fallbackPayload == FallbackPayload(prompt, safePage, safePerPage)
     IN AfterSearch(MarkFallback(apolloPayload, fallbackPayload),
                    RemoteSearch(seed, fallbackPayload))
  /\ UNCHANGED <<inputs, rangeLocals, safePage, safePerPage, translated, calls, ncalls,
                 err, err2>>

\* lines 310-315: the fallback post is rejected too
FallbackFail(kind) ==
  /\ phase = "fallback"
  /\ err2' = RemoteError(kind)
  /\ response' = ApolloError(err, err2', apolloPayload)
  /\ sent' = sent + 1
  /\ phase' = "done"
  /\ UNCHANGED <<inputs, rangeLocals, safePage, safePerPage, translated, calls, ncalls,
                 apolloPayload, apolloData, err>>

\* lines 320-324: the enrichment pool returns, the answer is sent
Enriched ==
  /\ phase = "enriching"
  /\ apolloData' = EnrichedData(apolloData)
  /\ response' = SearchResponse(apolloPayload, apolloData')
  /\ sent' = sent + 1
  /\ phase' = "done"
  /\ UNCHANGED <<inputs, rangeLocals, safePage, safePerPage, translated, calls, ncalls,
                 apolloPayload, err, err2>>

SearchNext ==
  \/ SearchHandle
  \/ SearchTranslatorThrows
  \/ SearchTranslatorReturns
  \/ PrimaryOk
  \/ \E kind \in ErrKinds : PrimaryFail(kind)
  \/ FallbackOk
  \/ \E kind \in ErrKinds : FallbackFail(kind)
  \/ Enriched

SearchSpec == SearchInit /\ [][SearchNext]_vars

(***************************************************************************)
(* searchForRange as a function: the payloads lines 345-357 build for base *)
(* queries of every form.                                                  *)
(***************************************************************************)
MaxBuilds == 2

NestedQueries ==
  << EmptyObject,
     [q_keywords |-> "solar"],
     [q_keywords |-> "solar", organization_num_employees_min |-> 5],
     [organization_num_employees_min |-> 5, organization_num_employees_max |-> 50,
      organization_num_employees_ranges |-> <<<<"5", ",", "5", "0">>>>] >>

\* a base query with the headcount fields and a nested query, or without
BaseQuery(topMin, topMax, nested, topRanges) ==
  LET plain == TranslatedPayload(PerPageFallback)
      b1 == IF topMin THEN Put(plain, "organization_num_employees_min", 5) ELSE plain
      b2 == IF topMax THEN Put(b1, "organization_num_employees_max", 50) ELSE b1
      b3 == IF topRanges
            THEN Put(b2, "organization_num_employees_ranges", <<<<"5", ",", "5", "0">>>>) ELSE b2
  IN IF nested = 0 THEN b3 ELSE Put(b3, "query", NestedQueries[nested])

\* every form of base query: nested is 0 for none, or an index of NestedQueries
BaseQueries ==
  { BaseQuery(FALSE, FALSE, nq, FALSE) : nq \in 0..Len(NestedQueries) }
    \cup { BaseQuery(TRUE, TRUE, nq, TRUE) : nq \in 0..Len(NestedQueries) }
    \cup { BaseQuery(TRUE, FALSE, 0, FALSE), BaseQuery(FALSE, TRUE, 0, TRUE) }

PartitionStrings == {<<"1", ",", "1", "0">>, <<"1", "1", ",", "5", "0">>}

Overrides == {Undefined, JsNum(2), JsNum(FetchAllPerPage)}

BuilderInit ==
  /\ base \in BaseQueries
  /\ prompt = ValidPrompt
  /\ per_page = Undefined
  /\ ranges = Undefined
  /\ fetch_all = FALSE
  /\ seed = 0
  /\ phase = "pool"
  /\ safePerPage = PerPageFallback
  /\ translated = 1
  /\ normalized = <<>>
  /\ results = <<>>
  /\ idx = 0
  /\ workers = <<>>
  /\ calls = {}
  /\ ncalls = 0
  /\ faults = {}
  /\ claimCount = <<>>
  /\ writeCount = <<>>
  /\ postCount = <<>>
  /\ response = None
  /\ sent = 0
  /\ page = Undefined
  /\ enrich = Undefined
  /\ safePage = 0
  /\ apolloPayload = None
  /\ apolloData = None
  /\ err = None
  /\ err2 = None

\* lines 345-357 of one call of searchForRange; calls keeps the arguments
\* with the payload built for them
BuildPayload(rangeString, pageOverride, perPageOverride) ==
  /\ ncalls < MaxBuilds
  /\ calls' = calls \cup
       {[basePayload |-> base, rangeString |-> rangeString,
         pageOverride |-> pageOverride, perPageOverride |-> perPageOverride,
         payload |-> RangePayload(base, rangeString, pageOverride, perPageOverride)]}
  /\ ncalls' = ncalls + 1
  /\ base' = BaseAfter(base, rangeString, pageOverride, perPageOverride)
  /\ UNCHANGED <<inputs, searchLocals, phase, safePerPage, translated, normalized, results,
                 idx, workers, faults, claimCount, writeCount, postCount, response, sent>>

BuilderNext ==
  \E r \in PartitionStrings, po \in Overrides, ppo \in Overrides : BuildPayload(r, po, ppo)

BuilderSpec == BuilderInit /\ [][BuilderNext]_vars

(***************************************************************************)
(* Vocabulary of the properties.                                           *)
(***************************************************************************)
Answered == phase = "done" /\ response.status = StatusOk

PoolRunning == phase \in {"starting", "pool"}

Indices == 0..(Len(normalized) - 1)

IsOutcome(g) == g # Null

\* the test the callers of the endpoint use: the error field
IsFailed(g) == "error" \in DOMAIN g /\ g.error

\* the partitions one of whose posts was rejected
FailedPartitions == {f[1] : f \in faults}

\* indices line 398 yielded whose slot is not assigned yet
InFlight == {i \in DOMAIN claimCount : i \notin DOMAIN results}

\* pages 1..n of a range, in page order, as the remote API holds them
RECURSIVE PagesConcat(_, _, _)
PagesConcat(sd, r, n) ==
  IF n = 0 THEN <<>> ELSE PagesConcat(sd, r, n - 1) \o RemoteOrganizations(sd, r, n)

ReportedPages(r) == RemoteTotalPages(seed, r)

ReportedTotal(r) ==
  IF seed % 2 = 0 THEN RemoteEntries(seed, r, Max2(1, ReportedPages(r)))
  ELSE RemotePageLen(seed, r, 1)

\* the group of a range none of whose posts is rejected
UndisturbedGroup(r) ==
  LET all == PagesConcat(seed, r, IF fetch_all THEN Max2(1, ReportedPages(r)) ELSE 1)
  IN [range |-> r,
      total_entries |-> ReportedTotal(r),
      organizations |-> IF fetch_all THEN all
                        ELSE [k \in 1..Min2(Len(all), safePerPage) |-> all[k]]]

(***************************************************************************)
(* C1: when /api/search_by_ranges answers, groups has as many entries as   *)
(* the normalized list and groups[i].range is normalized[i] for every i,   *)
(* whatever the order in which the partitions completed.                   *)
(***************************************************************************)
C1_GroupsFollowNormalized ==
  Answered =>
    /\ Len(response.groups) = Len(normalized)
    /\ \A k \in 1..Len(normalized) :
         /\ k \in DOMAIN response.groups
         /\ IsOutcome(response.groups[k])
         /\ response.groups[k].range = normalized[k]

\* an answer for the eight built-in ranges, one of which failed
C1_Witness ==
  /\ Answered
  /\ Len(normalized) > concurrency
  /\ faults # {}
  /\ \A k \in 1..Len(normalized) : response.groups[k].range = normalized[k]

(***************************************************************************)
(* C2: at any moment at most `concurrency` (4) partitions are claimed and  *)
(* not yet written, and min(concurrency, number of partitions) workers are *)
(* started.                                                                *)
(***************************************************************************)
C2_InFlightBounded ==
  /\ Cardinality(InFlight) <= concurrency
  /\ Len(workers) <= Min2(concurrency, Len(normalized))
  /\ phase \in {"pool", "done"} /\ base # None =>
       Len(workers) = Min2(concurrency, Len(normalized))

\* four partitions in flight while others wait to be claimed
C2_Witness ==
  /\ phase = "pool"
  /\ Cardinality(InFlight) = concurrency
  /\ idx < Len(normalized)
  /\ DOMAIN results # {}

(***************************************************************************)
(* C3: when the remote API rejects posts of exactly one partition, groups  *)
(* holds exactly one failed outcome, at the index of that partition, every *)
(* other group is the successful outcome it would be without the failure,  *)
(* and every partition was still claimed.                                  *)
(***************************************************************************)
C3_FailureIsolated ==
  Answered /\ Cardinality(FailedPartitions) = 1 =>
    /\ Len(response.groups) = Len(normalized)
    /\ DOMAIN claimCount = Indices
    /\ \A i \in Indices :
         /\ IsOutcome(response.groups[i + 1])
         /\ IF i \in FailedPartitions
            THEN /\ IsFailed(response.groups[i + 1])
                 /\ response.groups[i + 1].range = normalized[i + 1]
            ELSE response.groups[i + 1] = UndisturbedGroup(normalized[i + 1])

\* one partition failed, and partitions were claimed and succeeded after it
C3_Witness ==
  /\ Answered
  /\ Cardinality(FailedPartitions) = 1
  /\ Len(normalized) > concurrency
  /\ \E i \in Indices : i \in FailedPartitions /\ IsFailed(response.groups[i + 1])
  /\ \E i \in Indices : ~IsFailed(response.groups[i + 1]) /\
                         Len(response.groups[i + 1].organizations) > 0

(***************************************************************************)
(* Progress of a request: the position of the handler, the workers         *)
(* started, the posts sent, the slots assigned and the workers returned.   *)
(***************************************************************************)
PhaseRank ==
  CASE phase = "received" -> 0
    [] phase = "translating" -> 1
    [] phase = "starting" -> 2
    [] phase = "pool" -> 3
    [] OTHER -> 4

Progress ==
  PhaseRank + Len(workers) + ncalls + Cardinality(DOMAIN results)
  + Cardinality({w \in DOMAIN workers : workers[w].pc = "done"})

\* no request makes more progress than this
ProgressBound ==
  4 + 2 * concurrency + Len(normalized) * (1 + Max2(1, MaxPages))

(***************************************************************************)
(* C4: every step of a request makes progress and progress is bounded, a   *)
(* worker is either suspended on a post, which settles, or has returned    *)
(* because the cursor is exhausted, so every worker terminates; and when   *)
(* the answer is built every worker has terminated and every index 0..n-1  *)
(* of results holds an outcome.                                            *)
(***************************************************************************)
C4_AnsweredAfterAllResolved ==
  /\ [][Progress' > Progress]_vars
  /\ [](Progress <= ProgressBound)
  /\ [](\A w \in DOMAIN workers :
          /\ workers[w].pc \in {"await", "done"}
          /\ workers[w].pc = "done" => idx >= Len(normalized))
  /\ [](Answered =>
          /\ \A w \in DOMAIN workers : workers[w].pc = "done"
          /\ DOMAIN results = Indices
          /\ Len(response.groups) = Len(normalized)
          /\ \A k \in 1..Len(normalized) : IsOutcome(response.groups[k]))

\* an answer that had to wait for workers claiming a second partition
C4_Witness ==
  /\ Answered
  /\ Len(normalized) > concurrency
  /\ DOMAIN results = Indices
  /\ \A w \in DOMAIN workers : workers[w].pc = "done"

(***************************************************************************)
(* C5: no index is claimed twice, every slot of results is assigned at     *)
(* most once, and an index that was claimed is either assigned or held by  *)
(* exactly one worker, the one that assigns it.                            *)
(***************************************************************************)
Holders(i) == {w \in DOMAIN workers : workers[w].pc = "await" /\ workers[w].i = i}

C5_ClaimedOnceWrittenOnce ==
  /\ \A i \in DOMAIN claimCount : claimCount[i] = 1
  /\ \A i \in DOMAIN writeCount : writeCount[i] = 1
  /\ DOMAIN writeCount = DOMAIN results
  /\ DOMAIN results \subseteq DOMAIN claimCount
  /\ \A i \in DOMAIN claimCount :
       IF i \in DOMAIN results THEN Holders(i) = {} ELSE Cardinality(Holders(i)) = 1

\* a worker holds its second partition while another still holds its first
C5_Witness ==
  /\ phase = "pool"
  /\ \E w \in DOMAIN workers : workers[w].pc = "await" /\ workers[w].i >= concurrency
  /\ \E w \in DOMAIN workers : workers[w].pc = "await" /\ workers[w].i < concurrency
  /\ DOMAIN results # {}

(***************************************************************************)
(* C6: without fetch_all, every group of the answer, successful or failed, *)
(* holds at most the clamped per_page organizations, whatever the remote   *)
(* API returned.                                                           *)
(***************************************************************************)
C6_GroupsWithinPerPage ==
  Answered /\ ~fetch_all =>
    \A k \in DOMAIN response.groups :
      IsOutcome(response.groups[k]) =>
        Len(response.groups[k].organizations) <= safePerPage

\* the remote API returned more than per_page and the group was cut
C6_Witness ==
  /\ Answered
  /\ ~fetch_all
  /\ \E k \in DOMAIN response.groups :
       /\ ~IsFailed(response.groups[k])
       /\ RemotePageLen(seed, normalized[k], FirstPage) > safePerPage
       /\ Len(response.groups[k].organizations) = safePerPage

(***************************************************************************)
(* C7: with fetch_all, a partition whose first page reports N > 1 pages    *)
(* and whose N posts all succeed gets the organizations of pages 1..N in   *)
(* page order, as many as the pages hold together.                         *)
(***************************************************************************)
C7_PagesConcatenated ==
  Answered /\ fetch_all =>
    \A i \in Indices :
      (i \notin FailedPartitions /\ ReportedPages(normalized[i + 1]) > 1) =>
        /\ IsOutcome(response.groups[i + 1])
        /\ response.groups[i + 1].organizations =
             PagesConcat(seed, normalized[i + 1], ReportedPages(normalized[i + 1]))
        /\ Len(response.groups[i + 1].organizations) =
             RemoteEntries(seed, normalized[i + 1], ReportedPages(normalized[i + 1]))

\* a partition of two pages that both hold organizations
C7_Witness ==
  /\ Answered
  /\ fetch_all
  /\ \E i \in Indices :
       /\ i \notin FailedPartitions
       /\ ReportedPages(normalized[i + 1]) > 1
       /\ RemotePageLen(seed, normalized[i + 1], 1) > 0
       /\ RemotePageLen(seed, normalized[i + 1], 2) > 0
       /\ Len(response.groups[i + 1].organizations) =
            RemotePageLen(seed, normalized[i + 1], 1) + RemotePageLen(seed, normalized[i + 1], 2)

(***************************************************************************)
(* What section 4.1 of the specification accepts as a range descriptor.    *)
(***************************************************************************)
IsNumeral(s) == Len(s) > 0 /\ \A k \in 1..Len(s) : IsDigit(s[k])

WellFormed(d) ==
  CASE d.t = "string" ->
         /\ Len(Split(d.s)) = 2
         /\ IsNumeral(Trim(Split(d.s)[1]))
         /\ IsNumeral(Trim(Split(d.s)[2]))
    [] d.t = "array" ->
         Len(d.a) = 2 /\ d.a[1].t = "number" /\ d.a[2].t = "number"
    [] d.t = "object" ->
         {"min", "max"} \subseteq d.keys /\ d.min.t = "number" /\ d.max.t = "number"
    [] OTHER -> FALSE

Canonical(d) ==
  CASE d.t = "string" -> Join2(Trim(Split(d.s)[1]), Trim(Split(d.s)[2]))
    [] d.t = "array" -> Join2(NatToString(d.a[1].n), NatToString(d.a[2].n))
    [] OTHER -> Join2(NatToString(d.min.n), NatToString(d.max.n))

RECURSIVE CanonicalWellFormed(_)
CanonicalWellFormed(ds) ==
  IF ds = <<>> THEN <<>>
  ELSE IF WellFormed(Head(ds))
       THEN <<Canonical(Head(ds))>> \o CanonicalWellFormed(Tail(ds))
       ELSE CanonicalWellFormed(Tail(ds))

Normalized == base # None

(***************************************************************************)
(* C8: for a list that mixes well-formed and malformed descriptors, the    *)
(* normalized list is exactly the well-formed ones, in canonical form and  *)
(* input order: every malformed descriptor is dropped.                     *)
(***************************************************************************)
C8_MalformedDropped ==
  Normalized /\ ranges.t = "array" /\ Len(ranges.a) > 0 =>
    normalized = CanonicalWellFormed(ranges.a)

(***************************************************************************)
(* The eight partitions section 3 of the specification documents.          *)
(***************************************************************************)
DigitValue(c) == (CHOOSE k \in 1..10 : Digits[k] = c) - 1

RECURSIVE StringToNat(_)
StringToNat(s) ==
  IF Len(s) = 0 THEN 0
  ELSE 10 * StringToNat(SubSeq(s, 1, Len(s) - 1)) + DigitValue(s[Len(s)])

Bounded(lo, hi) == [min |-> lo, bounded |-> TRUE, max |-> hi]

UnboundedFrom(lo) == [min |-> lo, bounded |-> FALSE, max |-> 0]

\* the partition a canonical "<min>,<max>" string stands for
PartitionOf(r) == Bounded(StringToNat(Split(r)[1]), StringToNat(Split(r)[2]))

DocumentedDefaults ==
  << Bounded(1, 10), Bounded(11, 50), Bounded(51, 200), Bounded(201, 500),
     Bounded(501, 1000), Bounded(1001, 5000), Bounded(5001, 10000),
     UnboundedFrom(10001) >>

NoDescriptors == ranges.t = "undefined" \/ (ranges.t = "array" /\ Len(ranges.a) = 0)

(***************************************************************************)
(* C9: when the caller supplies no descriptors, the normalized list is the *)
(* eight documented partitions 1-10, 11-50, 51-200, 201-500, 501-1000,     *)
(* 1001-5000, 5001-10000 and 10001+, the last unbounded above, in order.   *)
(***************************************************************************)
C9_DocumentedDefaultsUsed ==
  Normalized /\ NoDescriptors =>
    [k \in 1..Len(normalized) |-> PartitionOf(normalized[k])] = DocumentedDefaults

(***************************************************************************)
(* C10: a prompt that is missing or not a non-empty string is answered     *)
(* with one validation error and nothing else happens: the translator is   *)
(* not called, no partition is claimed, no post is sent.                   *)
(***************************************************************************)
NonEmptyString(v) == v.t = "string" /\ Len(v.s) > 0

C10_BadPromptRejectedAtOnce ==
  ~NonEmptyString(prompt) =>
    /\ phase \in {"received", "done"}
    /\ translated = 0
    /\ base = None
    /\ ncalls = 0
    /\ calls = {}
    /\ DOMAIN claimCount = {}
    /\ workers = <<>>
    /\ phase = "done" => (response.status = StatusBadRequest /\ sent = 1)

\* a prompt that is a number, answered with status 400
C10_Witness ==
  /\ prompt.t = "number"
  /\ ~Falsy(prompt)
  /\ phase = "done"
  /\ response.status = StatusBadRequest

(***************************************************************************)
(* C11: when the translator was called and did not return a base query,    *)
(* nothing is normalised, no worker is started, no partition is claimed    *)
(* and nothing is posted to the remote API; the request is answered once,  *)
(* with the internal error (status 500) and no groups.                     *)
(***************************************************************************)
TranslationFailed == translated > 0 /\ base = None /\ phase = "done"

C11_TranslatorFailureIsOneError ==
  translated > 0 /\ base = None =>
    /\ normalized = <<>>
    /\ workers = <<>>
    /\ DOMAIN claimCount = {}
    /\ DOMAIN results = {}
    /\ calls = {} /\ ncalls = 0
    /\ phase \in {"translating", "done"}
    /\ phase = "done" =>
         /\ sent = 1
         /\ response = [status |-> StatusInternal, error |-> "Internal error"]

\* the translator failed on a request that carried usable partitions
C11_Witness ==
  /\ TranslationFailed
  /\ Len(Normalize(ranges)) > 1
  /\ response.status = StatusInternal
  /\ sent = 1

(***************************************************************************)
(* C12 as stated: with fetch_all, a rejected post of page 1 gives a failed *)
(* outcome, and a rejected post of a later page k leaves the group with    *)
(* the organizations of pages 1..k-1.                                      *)
(***************************************************************************)
C12_LaterPageFailureKeepsPartial ==
  Answered /\ fetch_all =>
    \A f \in faults :
      IF f[2] = FirstPage
      THEN IsFailed(response.groups[f[1] + 1])
      ELSE response.groups[f[1] + 1].organizations =
             PagesConcat(seed, normalized[f[1] + 1], f[2] - 1)

(***************************************************************************)
(* C12 amended: with fetch_all, a rejected post of any page, the first or  *)
(* a later page k, ends the fetch of that partition (no further post of it *)
(* is rejected) and gives the failed outcome, whose organizations are      *)
(* empty and whose total is 0: the pages 1..k-1 already fetched are        *)
(* discarded.                                                              *)
(***************************************************************************)
C12_AnyPageFailureDiscards ==
  /\ \A f, g \in faults : f[1] = g[1] => f = g
  /\ Answered /\ fetch_all =>
       \A f \in faults :
         /\ IsFailed(response.groups[f[1] + 1])
         /\ response.groups[f[1] + 1].range = normalized[f[1] + 1]
         /\ response.groups[f[1] + 1].organizations = <<>>
         /\ response.groups[f[1] + 1].total_entries = 0

\* the post of page 2 was rejected after page 1 had returned organizations
C12_Witness ==
  /\ Answered
  /\ fetch_all
  /\ \E f \in faults :
       /\ f[2] > FirstPage
       /\ RemotePageLen(seed, normalized[f[1] + 1], FirstPage) > 0
       /\ IsFailed(response.groups[f[1] + 1])
       /\ response.groups[f[1] + 1].organizations = <<>>

(***************************************************************************)
(* The invariant section 3 of the specification puts on a partition.       *)
(***************************************************************************)
\* r reads "<numeral>,<numeral>"
NumericPartition(r) ==
  /\ Len(Split(r)) = 2
  /\ IsNumeral(Split(r)[1])
  /\ IsNumeral(Split(r)[2])

PartitionInvariant(pt) == pt.min >= 1 /\ (pt.bounded => pt.max >= pt.min)

(***************************************************************************)
(* C13: every numeric partition of the normalized list that a worker       *)
(* claims has min >= 1 and max >= min: a descriptor with a min of 0 or a   *)
(* max below its min does not reach the worker pool.                       *)
(***************************************************************************)
C13_ClaimedPartitionsValid ==
  \A i \in DOMAIN claimCount :
    NumericPartition(normalized[i + 1]) => PartitionInvariant(PartitionOf(normalized[i + 1]))

(***************************************************************************)
(* C14: once the translator has returned, the base query stays the query   *)
(* it returned through every derivation of a partition query by every      *)
(* worker, and the answer echoes that query; every query that was posted   *)
(* is another object than the base: it carries the range of one partition  *)
(* at the root and under query and the other fields of the base.           *)
(***************************************************************************)
C14_BaseNeverMutated ==
  /\ base # None => base = TranslatedPayload(safePerPage)
  /\ Answered =>
       /\ response.apollo_payload = TranslatedPayload(safePerPage)
       /\ \A c \in calls :
            /\ c # base
            /\ \E k \in 1..Len(normalized) :
                 c.organization_num_employees_ranges = <<normalized[k]>>
            /\ c.query.organization_num_employees_ranges =
                 c.organization_num_employees_ranges
            /\ \A f \in DOMAIN base \ {"page", "per_page"} : c[f] = base[f]

\* an answer after queries of several partitions and pages were derived
C14_Witness ==
  /\ Answered
  /\ fetch_all
  /\ Len(normalized) > concurrency
  /\ Cardinality(calls) > Len(normalized)
  /\ response.apollo_payload = TranslatedPayload(safePerPage)
  /\ "organization_num_employees_ranges" \notin DOMAIN response.apollo_payload

(***************************************************************************)
(* The fields of the two shapes of an outcome.                             *)
(***************************************************************************)
SuccessFields == {"total_entries", "organizations"}

FailureFields == {"error", "status", "details"}

\* every outcome written so far and every group of the answer
Outcomes ==
  {results[i] : i \in DOMAIN results}
    \cup (IF Answered THEN {g \in {response.groups[k] : k \in DOMAIN response.groups} :
                              IsOutcome(g)}
          ELSE {})

(***************************************************************************)
(* C15 as stated: every outcome is either a success outcome (range, total, *)
(* organizations) without any failure field, or a failure outcome (range,  *)
(* error flag, status, details) without any success field.                 *)
(***************************************************************************)
C15_ExactlyOneShape ==
  \A g \in Outcomes :
    \/ DOMAIN g = {"range"} \cup SuccessFields
    \/ DOMAIN g = {"range"} \cup FailureFields

(***************************************************************************)
(* C15 amended: every outcome is either a success outcome (range, total,   *)
(* organizations) without any failure field, or a failure outcome (range,  *)
(* error flag set, status, details) that also carries the success fields,  *)
(* emptied: a total of 0 and no organizations. The error field tells the   *)
(* two apart.                                                              *)
(***************************************************************************)
C15_OneShapeByErrorField ==
  \A g \in Outcomes :
    IF "error" \in DOMAIN g
    THEN /\ DOMAIN g = {"range"} \cup FailureFields \cup SuccessFields
         /\ g.error = TRUE
         /\ g.total_entries = 0
         /\ g.organizations = <<>>
    ELSE DOMAIN g = {"range"} \cup SuccessFields

\* an answer that holds a failure outcome and a success outcome with organizations
C15_Witness ==
  /\ Answered
  /\ \E g \in Outcomes : "error" \in DOMAIN g /\ g.status # StatusInternal
  /\ \E g \in Outcomes : "error" \notin DOMAIN g /\ Len(g.organizations) > 0

(***************************************************************************)
(* The answer as a function of the request and of the posts the remote API *)
(* rejects: what a request with these inputs answers in every run.         *)
(***************************************************************************)
ExpectedRanges == Normalize(ranges)

ExpectedBase == TranslatedPayload(SafePerPage(per_page))

ExpectedGroups ==
  LET expected == ExpectedRanges
  IN [k \in 1..Len(expected) |-> UndisturbedGroup(expected[k])]

(***************************************************************************)
(* C16: with the deterministic translator and a remote API that answers    *)
(* every post, the groups and the echoed base query of the answer are a    *)
(* function of the inputs of the request alone, so two runs with identical *)
(* inputs answer identically whatever the interleavings of their workers.  *)
(***************************************************************************)
C16_AnswerDeterminedByInputs ==
  Answered /\ faults = {} =>
    /\ safePerPage = SafePerPage(per_page)
    /\ response.groups = ExpectedGroups
    /\ response.apollo_payload = ExpectedBase
    /\ response.ranges = ExpectedRanges

\* an answer whose partitions were resolved by workers that interleave
C16_Witness ==
  /\ Answered
  /\ faults = {}
  /\ fetch_all
  /\ Len(normalized) > concurrency
  /\ ncalls > Len(normalized)
  /\ response.groups = ExpectedGroups
  /\ \E j, k \in DOMAIN response.groups : response.groups[j] # response.groups[k]

(***************************************************************************)
(* What /api/search has done and how it answered.                          *)
(***************************************************************************)
PrimaryIssued == \E c \in calls : ~IsKeywordSearch(c)

FallbackIssued == \E c \in calls : IsKeywordSearch(c)

PrimaryFailed == err # None

FallbackFailed == err2 # None

IsApolloError(resp) == "error" \in DOMAIN resp /\ resp.error = "Apollo API error"

IsSearchSuccess(resp) == resp.status = StatusOk /\ "results" \in DOMAIN resp

FallbackUsed(resp) ==
  /\ "__fallback_used" \in DOMAIN resp.request.payload
  /\ resp.request.payload.__fallback_used

(***************************************************************************)
(* C17: in /api/search the fallback keyword post is sent only once the     *)
(* primary post has been rejected, and at most once (never more than two   *)
(* posts); a request that sent its primary post ends with the Apollo error *)
(* answer exactly when both posts were rejected, and with a success answer *)
(* otherwise, which is marked fallback-used exactly when the primary post  *)
(* was rejected and the fallback post answered.                            *)
(***************************************************************************)
C17_FallbackOnlyAfterPrimaryFails ==
  /\ FallbackIssued => PrimaryIssued /\ PrimaryFailed
  /\ FallbackFailed => FallbackIssued
  /\ ncalls = Cardinality(calls) /\ ncalls <= 2
  /\ Cardinality({c \in calls : IsKeywordSearch(c)}) <= 1
  /\ PrimaryFailed => FallbackIssued
  /\ phase = "done" /\ PrimaryIssued =>
       /\ sent = 1
       /\ IsApolloError(response) <=> (PrimaryFailed /\ FallbackFailed)
       /\ ~IsApolloError(response) =>
            /\ IsSearchSuccess(response)
            /\ FallbackUsed(response) <=> (PrimaryFailed /\ ~FallbackFailed)

\* a request answered from the fallback post after the primary was rejected
C17_Witness ==
  /\ phase = "done"
  /\ PrimaryFailed /\ ~FallbackFailed
  /\ IsSearchSuccess(response)
  /\ FallbackUsed(response)
  /\ response.request.payload.__fallback_payload.q_organization_name # prompt.s

(***************************************************************************)
(* The fields searchForRange may change.                                   *)
(***************************************************************************)
RangeField == "organization_num_employees_ranges"

\* the nested query of a base query, empty when it has none
NestedOf(b) == IF "query" \in DOMAIN b THEN b.query ELSE EmptyObject

\* field f of payload c is what override o asks for, or what base query b holds
Overridden(c, b, f, o) ==
  IF o.t = "number" THEN f \in DOMAIN c /\ c[f] = o.n
  ELSE (f \in DOMAIN c <=> f \in DOMAIN b) /\ (f \in DOMAIN b => c[f] = b[f])

(***************************************************************************)
(* C18: for every base query and partition string, the payload built has   *)
(* no organization_num_employees_min/max at the top level or in the nested *)
(* query, has the range field equal to the list of the one partition       *)
(* string at the top level and in the nested query, has page and per_page  *)
(* replaced by the overrides that are numbers, and agrees with the base    *)
(* query on every other field, at the top level and in the nested query.   *)
(***************************************************************************)
C18_PayloadIsBaseExceptRange ==
  \A call \in calls :
    LET b == call.basePayload
        c == call.payload
    IN /\ DOMAIN c = ((DOMAIN b) \ ConflictingFields)
                        \cup {RangeField, "query"}
                        \cup (IF call.pageOverride.t = "number" THEN {"page"} ELSE {})
                        \cup (IF call.perPageOverride.t = "number" THEN {"per_page"} ELSE {})
       /\ c[RangeField] = <<call.rangeString>>
       /\ DOMAIN c.query = ((DOMAIN NestedOf(b)) \ ConflictingFields) \cup {RangeField}
       /\ c.query[RangeField] = <<call.rangeString>>
       /\ \A f \in (DOMAIN c.query) \ {RangeField} : c.query[f] = NestedOf(b)[f]
       /\ Overridden(c, b, "page", call.pageOverride)
       /\ Overridden(c, b, "per_page", call.perPageOverride)
       /\ \A f \in (DOMAIN c) \ {RangeField, "query", "page", "per_page"} : c[f] = b[f]

\* a payload built from a base query that held the conflicting fields at both
\* levels, with one override given and the other not
C18_Witness ==
  \E call \in calls :
    /\ ConflictingFields \subseteq DOMAIN call.basePayload
    /\ "query" \in DOMAIN call.basePayload
    /\ ConflictingFields \subseteq DOMAIN call.basePayload.query
    /\ call.pageOverride.t = "number"
    /\ call.perPageOverride.t # "number"
    /\ call.payload.page # call.basePayload.page
    /\ call.payload[RangeField] # call.basePayload[RangeField]
    /\ ConflictingFields \cap DOMAIN call.payload = {}

(***************************************************************************)
(* C19: when the request is answered, every post of page 1 of a partition  *)
(* has asked for the clamped per_page of the caller when fetch_all is off  *)
(* and for 100 when it is on; every post of a later page was sent only     *)
(* with fetch_all on and has asked for 100; and every partition has had    *)
(* its page 1 posted.                                                      *)
(***************************************************************************)
C19_PageSizeOfEachFetch ==
  Answered =>
    /\ \A c \in calls :
         IF c.page = FirstPage
         THEN c.per_page = (IF fetch_all THEN FetchAllPerPage ELSE safePerPage)
         ELSE fetch_all /\ c.per_page = FetchAllPerPage
    /\ \A i \in Indices :
         \E c \in calls :
           /\ c.page = FirstPage
           /\ c.organization_num_employees_ranges = <<normalized[i + 1]>>

\* an exhaustive fetch whose first and later pages were posted with 100 while
\* the caller asked for another page size
C19_Witness ==
  /\ Answered
  /\ fetch_all
  /\ safePerPage # FetchAllPerPage
  /\ \E c \in calls : c.page = FirstPage /\ c.per_page = FetchAllPerPage
  /\ \E c \in calls : c.page > FirstPage /\ c.per_page = FetchAllPerPage

(***************************************************************************)
(* Pages lo..hi of a range, in page order.                                 *)
(***************************************************************************)
RECURSIVE PagesBetween(_, _, _, _)
PagesBetween(sd, r, lo, hi) ==
  IF hi < lo THEN <<>>
  ELSE PagesBetween(sd, r, lo, hi - 1) \o RemoteOrganizations(sd, r, hi)

\* page k of r was posted
Posted(r, k) ==
  \E c \in calls : c.page = k /\ c.organization_num_employees_ranges = <<r>>

(***************************************************************************)
(* C20: with fetch_all, when page k of a partition of N reported pages,    *)
(* 2 <= k < N, holds no organizations and no post of the partition is      *)
(* rejected, pages k+1..N are still posted and the group holds the         *)
(* organizations of pages 1..k-1 followed by those of pages k+1..N.        *)
(***************************************************************************)
C20_EmptyPageDoesNotStop ==
  Answered /\ fetch_all =>
    \A i \in Indices \ FailedPartitions :
      LET r == normalized[i + 1]
          N == ReportedPages(r)
      IN \A k \in 2..(N - 1) :
           RemotePageLen(seed, r, k) = 0 =>
             /\ \A p \in (k + 1)..N : Posted(r, p)
             /\ response.groups[i + 1].organizations =
                  PagesConcat(seed, r, k - 1) \o PagesBetween(seed, r, k + 1, N)

\* a partition of three pages whose second page is empty and whose first and
\* third pages are not
C20_Witness ==
  /\ Answered
  /\ fetch_all
  /\ \E i \in Indices \ FailedPartitions :
       LET r == normalized[i + 1]
       IN /\ ReportedPages(r) = 3
          /\ RemotePageLen(seed, r, 1) > 0
          /\ RemotePageLen(seed, r, 2) = 0
          /\ RemotePageLen(seed, r, 3) > 0
          /\ Posted(r, 3)
          /\ Len(response.groups[i + 1].organizations) =
               RemotePageLen(seed, r, 1) + RemotePageLen(seed, r, 3)

(***************************************************************************)
(* The posts in flight: one per worker suspended at line 402 or 407.       *)
(***************************************************************************)
Awaiting == {w \in DOMAIN workers : workers[w].pc = "await"}

\* worker w goes on with the partition it holds
SamePartition(w) ==
  /\ w \in Awaiting
  /\ workers'[w].pc = "await"
  /\ workers'[w].i = workers[w].i
  /\ workers'[w] # workers[w]

(***************************************************************************)
(* C21: the pages of a partition are posted one after the other: a worker  *)
(* posts page k+1 only in the step in which the answer to its post of page *)
(* k arrives, so the worker that waits for page k holds the organizations  *)
(* of pages 1..k-1; every step sends at most one post; at most one post is *)
(* in flight per partition and at most `concurrency` in the pool.          *)
(***************************************************************************)
C21_PagesSequential ==
  /\ [][\A w \in DOMAIN workers :
          SamePartition(w) => workers'[w].p = workers[w].p + 1]_vars
  /\ [][ncalls' <= ncalls + 1]_vars
  /\ [](\A w \in Awaiting :
          LET wk == workers[w]
          IN /\ wk.p >= FirstPage
             /\ wk.p > FirstPage =>
                  /\ fetch_all
                  /\ wk.p <= wk.totalPages
                  /\ wk.allOrgs = PagesConcat(seed, normalized[wk.i + 1], wk.p - 1))
  /\ [](\A i \in Indices : Cardinality({w \in Awaiting : workers[w].i = i}) <= 1)
  /\ [](Cardinality(Awaiting) <= concurrency)

\* as many posts in flight as the pool allows, one of them for a third page
C21_Witness ==
  /\ phase = "pool"
  /\ Cardinality(Awaiting) = concurrency
  /\ \E w \in Awaiting :
       /\ workers[w].p = 3
       /\ Len(workers[w].allOrgs) > 0

(***************************************************************************)
(* What a step does to the partition worker w holds.                       *)
(***************************************************************************)
\* worker w takes a partition in this step
Claims(w) ==
  /\ w \in DOMAIN workers'
  /\ workers'[w].pc = "await"
  /\ w \in DOMAIN workers => workers'[w].i # workers[w].i \/ workers[w].pc = "done"

\* worker w lets go of the partition it holds in this step
Releases(w) ==
  /\ w \in Awaiting
  /\ workers'[w].pc = "done" \/ workers'[w].i # workers[w].i

(***************************************************************************)
(* C22: the cursor never decreases and a step moves it by one exactly when *)
(* a worker claims, and the claim is of the index the cursor was at, so    *)
(* the claimed indices are always 0..idx-1 and index i is claimed before   *)
(* index j when i < j; a worker lets go of the partition it holds only in  *)
(* the step that writes its outcome, so it claims the next one after that. *)
(***************************************************************************)
C22_ClaimedInListOrder ==
  /\ [][idx' = idx \/ idx' = idx + 1]_vars
  /\ [][\A w \in DOMAIN workers' : Claims(w) => workers'[w].i = idx /\ idx' = idx + 1]_vars
  /\ [][idx' = idx + 1 => Cardinality({w \in DOMAIN workers' : Claims(w)}) = 1]_vars
  /\ [][\A w \in DOMAIN workers :
          Releases(w) => /\ workers[w].i \notin DOMAIN results
                         /\ workers[w].i \in DOMAIN results']_vars
  /\ [](DOMAIN claimCount = 0..(idx - 1))
  /\ [](idx <= Len(normalized))

\* a later partition is written while an earlier one is still in flight
C22_Witness ==
  /\ phase = "pool"
  /\ \E i \in InFlight, j \in DOMAIN results : i < j
  /\ \E w \in Awaiting : workers[w].i >= concurrency

(***************************************************************************)
(* What a rejected post shows of itself, by kind.                          *)
(***************************************************************************)
\* the HTTP status of the rejection, 0 when there was no response
RejectedStatus(kind) == RemoteError(kind).status

RejectedWithResponse(kind) == kind \in {"http", "empty"}

RejectedWithBody(kind) == kind = "http"

(***************************************************************************)
(* C23: the group of a partition one of whose posts was rejected carries   *)
(* the range of the partition, the HTTP status of the rejection, or 500    *)
(* when there was no HTTP response, and as details the body of the         *)
(* response, or an object holding the message of the error when there is   *)
(* no body; and a request in which posts were rejected is still answered   *)
(* with status 200 and one group per partition, not with the internal      *)
(* error.                                                                  *)
(***************************************************************************)
C23_FailedOutcomeCarriesStatusAndDetail ==
  /\ \A f \in faults :
       f[1] \in DOMAIN results =>
         LET g == results[f[1]]
             e == RemoteError(f[3])
         IN /\ g.range = normalized[f[1] + 1]
            /\ g.status = (IF RejectedWithResponse(f[3]) THEN RejectedStatus(f[3])
                           ELSE StatusInternal)
            /\ g.details = (IF RejectedWithBody(f[3]) THEN e.data
                            ELSE [message |-> e.message])
  /\ faults # {} /\ phase = "done" =>
       /\ Answered
       /\ "groups" \in DOMAIN response
       /\ Len(response.groups) = Len(normalized)
       /\ \A f \in faults : response.groups[f[1] + 1] = results[f[1]]

\* an answer holding a partition rejected without a response and one rejected
\* with a response and a body
C23_Witness ==
  /\ Answered
  /\ \E f \in faults :
       /\ f[3] = "transport"
       /\ response.groups[f[1] + 1].status = StatusInternal
       /\ "message" \in DOMAIN response.groups[f[1] + 1].details
  /\ \E f \in faults :
       /\ f[3] = "http"
       /\ response.groups[f[1] + 1].status # StatusInternal
       /\ "message" \notin DOMAIN response.groups[f[1] + 1].details

(***************************************************************************)
(* The pages of partition i that were posted.                              *)
(***************************************************************************)
PagesPosted(i) == {k[2] : k \in {q \in DOMAIN postCount : q[1] = i}}

\* the pages a partition none of whose posts is rejected needs
PagesNeeded(r) == IF fetch_all THEN 1..Max2(1, ReportedPages(r)) ELSE {FirstPage}

(***************************************************************************)
(* C24: no post is repeated: every (partition, page) pair is posted at     *)
(* most once and these are all the posts of the request; no page of a      *)
(* partition is posted after one of its posts was rejected; and when the   *)
(* request is answered, a partition without fetch_all has had exactly one  *)
(* post, a partition with fetch_all whose posts all answered has had the   *)
(* max(1, N) posts of pages 1..N, N being the page count page 1 reported,  *)
(* and a partition whose post of page k was rejected the k posts of pages  *)
(* 1..k.                                                                   *)
(***************************************************************************)
C24_NoRetries ==
  /\ \A q \in DOMAIN postCount : postCount[q] = 1
  /\ ncalls = Cardinality(DOMAIN postCount)
  /\ \A f \in faults : \A p \in PagesPosted(f[1]) : p <= f[2]
  /\ Answered =>
       \A i \in Indices :
         /\ ~fetch_all => PagesPosted(i) = {FirstPage}
         /\ i \notin FailedPartitions => PagesPosted(i) = PagesNeeded(normalized[i + 1])
         /\ \A f \in faults : f[1] = i => PagesPosted(i) = 1..f[2]

\* an answer after a partition of three pages was fetched in three posts and
\* a partition that has more pages was given up at the page that was rejected
C24_Witness ==
  /\ Answered
  /\ fetch_all
  /\ \E i \in Indices \ FailedPartitions :
       /\ ReportedPages(normalized[i + 1]) = 3
       /\ PagesPosted(i) = 1..3
  /\ \E f \in faults :
       /\ PagesPosted(f[1]) = 1..f[2]
       /\ f[2] < ReportedPages(normalized[f[1] + 1])

(***************************************************************************)
(* The calls of the request that have not returned: the translator, or     *)
(* the posts the workers are suspended on.                                 *)
(***************************************************************************)
CallsOutstanding ==
  \/ phase = "translating"
  \/ phase = "pool" /\ Awaiting # {}

\* the handler, or the continuation of its last await, has still to run
HandlerPending ==
  \/ phase \in {"received", "starting"}
  \/ phase = "pool" /\ AllSettled(workers)

(***************************************************************************)
(* C25: a request sends exactly one response on every path: never more     *)
(* than one is sent; the request is over exactly when one was sent, and    *)
(* that one is the rejection of the prompt (400), the internal error of a  *)
(* failed translation (500) or the answer with one group per partition     *)
(* (200), failed partitions included; and as long as none was sent either  *)
(* a call of the request has not returned or the handler has still to run, *)
(* so no request is left without a response once its calls have returned.  *)
(***************************************************************************)
C25_ExactlyOneResponse ==
  /\ sent \in {0, 1}
  /\ sent = 1 <=> phase = "done"
  /\ sent = 0 <=> response = None
  /\ sent = 0 => (CallsOutstanding \/ HandlerPending)
  /\ sent = 1 =>
       /\ response.status \in {StatusOk, StatusBadRequest, StatusInternal}
       /\ response.status = StatusBadRequest <=> PromptRejected(prompt)
       /\ response.status = StatusInternal => translated = 1 /\ ncalls = 0
       /\ response.status = StatusOk =>
            /\ Len(response.groups) = Len(normalized)
            /\ Awaiting = {}

\* the one answer of a request none of whose ranges survives normalization
C25_Witness ==
  /\ sent = 1
  /\ Answered
  /\ ranges.t = "array"
  /\ Len(ranges.a) > 0
  /\ Len(normalized) = 0
  /\ response.groups = <<>>
  /\ ncalls = 0

=============================================================================
